---- MODULE Spec2Model ----
(***************************************************************************)
(* Flight aggregator: the offer normaliser (parse_flight_offer), the       *)
(* ranking pipeline (search_flights / compare_flights) and the two front   *)
(* ends that drive it (the command-line main and the Tkinter form).        *)
(*                                                                         *)
(* Python values are modelled as follows.                                  *)
(*   - A text the code parses or measures (str.strip, str.upper, len, int, *)
(*     float) is a sequence of one-character strings.                      *)
(*   - A JSON value of the provider payload is a tagged record: Null,      *)
(*     Str(s), Dict(f) with f a function from keys to JSON values, and     *)
(*     List(q) with q a sequence of JSON values.                           *)
(*   - A call that may raise yields Ok(v) or Raise(e).                     *)
(***************************************************************************)
EXTENDS Integers, Sequences, FiniteSets, TLC

VARIABLES
    norm,       \* one call of parse_flight_offer: its argument and its outcome
    rank,       \* one call of compare_flights: the provider's answer and the outcome
    program,    \* which front end runs: "cli" (flight_aggregator.main) or "gui"
    requests,   \* the provider calls in flight, each with the request behind it
    cli,        \* the command-line main: the answers typed and what it printed
    form,       \* the Tkinter form's widgets: entries, spinboxes, checkboxes
    ui,         \* the search button's state, the status bar, the results area
    workers,    \* the search threads started so far
    after_queue,\* callbacks handed to root.after(0, ...), run by the main loop
    edits       \* how many times the user has changed a form field

pipeline_vars == <<norm, rank>>
front_vars == <<program, requests, cli, form, ui, workers, after_queue, edits>>
gui_vars == <<form, ui, workers, after_queue, edits>>
vars == <<norm, rank, program, requests, cli, form, ui, workers, after_queue, edits>>

(***************************************************************************)
(* Bounds of the model.                                                    *)
(***************************************************************************)
MaxOffers == 4
MaxItins == 2
MaxSegs == 2
MaxEdits == 1
MaxSearches == 2

(***************************************************************************)
(* Outcomes of a call.                                                     *)
(***************************************************************************)
Ok(v) == [ok |-> TRUE, val |-> v]
Raise(e) == [ok |-> FALSE, exc |-> e]

(***************************************************************************)
(* Sequences.                                                              *)
(***************************************************************************)
SeqsUpTo(S, n) == UNION {[1..k -> S] : k \in 0..n}
Reverse(q) == [i \in 1..Len(q) |-> q[Len(q) + 1 - i]]
Count(q, x) == Cardinality({i \in 1..Len(q) : q[i] = x})

(***************************************************************************)
(* Text: str.strip, str.upper, int(str), float(str).                       *)
(***************************************************************************)
Whitespace == {" "}
Digits == <<"0", "1", "2", "3", "4", "5", "6", "7", "8", "9">>
LowerCase == <<"a", "b", "c", "d", "e", "f", "g", "h", "i", "j", "k", "l", "m",
               "n", "o", "p", "q", "r", "s", "t", "u", "v", "w", "x", "y", "z">>
UpperCase == <<"A", "B", "C", "D", "E", "F", "G", "H", "I", "J", "K", "L", "M",
               "N", "O", "P", "Q", "R", "S", "T", "U", "V", "W", "X", "Y", "Z">>

IsDigit(c) == \E i \in 1..Len(Digits) : Digits[i] = c
DigitVal(c) == (CHOOSE i \in 1..Len(Digits) : Digits[i] = c) - 1
AllDigits(s) == \A i \in 1..Len(s) : IsDigit(s[i])

RECURSIVE lstrip(_)
lstrip(s) == IF s # <<>> /\ Head(s) \in Whitespace THEN lstrip(Tail(s)) ELSE s

RECURSIVE rstrip(_)
rstrip(s) ==
    IF s # <<>> /\ s[Len(s)] \in Whitespace THEN rstrip(SubSeq(s, 1, Len(s) - 1)) ELSE s

strip(s) == rstrip(lstrip(s))

upper_char(c) ==
    IF \E i \in 1..Len(LowerCase) : LowerCase[i] = c
    THEN UpperCase[CHOOSE i \in 1..Len(LowerCase) : LowerCase[i] = c]
    ELSE c

upper(s) == [i \in 1..Len(s) |-> upper_char(s[i])]

lower_char(c) ==
    IF \E i \in 1..Len(UpperCase) : UpperCase[i] = c
    THEN LowerCase[CHOOSE i \in 1..Len(UpperCase) : UpperCase[i] = c]
    ELSE c

lower(s) == [i \in 1..Len(s) |-> lower_char(s[i])]

RECURSIVE Pow10(_)
Pow10(n) == IF n = 0 THEN 1 ELSE 10 * Pow10(n - 1)

\* The natural number a sequence of digits denotes.
RECURSIVE DigitsValue(_)
DigitsValue(s) ==
    IF s = <<>> THEN 0
    ELSE 10 * DigitsValue(SubSeq(s, 1, Len(s) - 1)) + DigitVal(s[Len(s)])

HasSign(s) == s # <<>> /\ Head(s) \in {"+", "-"}
Unsigned(s) == IF HasSign(s) THEN Tail(s) ELSE s
SignOf(s) == IF s # <<>> /\ Head(s) = "-" THEN -1 ELSE 1

\* int(s) of a str: surrounding whitespace, an optional sign, decimal digits.
py_int(s) ==
    LET body == Unsigned(strip(s))
    IN  IF body # <<>> /\ AllDigits(body)
        THEN Ok(SignOf(strip(s)) * DigitsValue(body))
        ELSE Raise("ValueError")

\* A decimal number is kept exactly, as mant / 10^frac.
DotAt(s) == {i \in 1..Len(s) : s[i] = "."}

\* float(s) of a str: surrounding whitespace, an optional sign, digits with at
\* most one decimal point and at least one digit.
float_of_text(s) ==
    LET body == Unsigned(strip(s))
        dots == DotAt(body)
        d == IF dots = {} THEN Len(body) + 1 ELSE CHOOSE i \in dots : TRUE
        whole == SubSeq(body, 1, d - 1)
        part == SubSeq(body, d + 1, Len(body))
    IN  IF /\ Cardinality(dots) <= 1
           /\ AllDigits(whole)
           /\ AllDigits(part)
           /\ Len(whole) + Len(part) >= 1
        THEN Ok([mant |-> SignOf(strip(s)) * DigitsValue(whole \o part),
                 frac |-> Len(part)])
        ELSE Raise("ValueError")

\* a < b and a = b of two floats.
FloatLess(a, b) == a.mant * Pow10(b.frac) < b.mant * Pow10(a.frac)
FloatEq(a, b) == a.mant * Pow10(b.frac) = b.mant * Pow10(a.frac)

(***************************************************************************)
(* JSON values of the provider payload.                                    *)
(***************************************************************************)
Null == [t |-> "null"]
Str(s) == [t |-> "str", v |-> s]
Dict(f) == [t |-> "dict", v |-> f]
List(q) == [t |-> "list", v |-> q]
EmptyMap == [k \in {} |-> Null]
EmptyDict == Dict(EmptyMap)
EmptyList == List(<<>>)

\* f without the keys of K; f restricted to K.
Without(f, K) == [k \in (DOMAIN f) \ K |-> f[k]]

\* d.get(k, default) of a dict d.
DictGet(d, k, default) == IF k \in DOMAIN d.v THEN d.v[k] ELSE default

\* x.get(k): only a dict has the method.
Get(x, k) == IF x.t = "dict" THEN Ok(DictGet(x, k, Null)) ELSE Raise("AttributeError")

\* x.get(k1, {}).get(k2)
Get2(x, k1, k2) ==
    IF x.t # "dict" THEN Raise("AttributeError")
    ELSE Get(DictGet(x, k1, EmptyDict), k2)

RECURSIVE SetToSeq(_)
SetToSeq(S) ==
    IF S = {} THEN <<>>
    ELSE LET x == CHOOSE y \in S : TRUE IN <<x>> \o SetToSeq(S \ {x})

\* The elements `for e in x` walks: a list's items, a dict's keys, a str's
\* characters; None is not iterable.
Iterate(x) ==
    CASE x.t = "list" -> Ok(x.v)
      [] x.t = "dict" -> Ok([i \in 1..Cardinality(DOMAIN x.v) |->
                                Str(SetToSeq(DOMAIN x.v)[i])])
      [] x.t = "str" -> Ok([i \in 1..Len(x.v) |-> Str(<<x.v[i]>>)])
      [] OTHER -> Raise("TypeError")

\* x.get(k, []) then iterated.
GetIter(x, k) ==
    IF x.t # "dict" THEN Raise("AttributeError")
    ELSE Iterate(DictGet(x, k, EmptyList))

AllOk(q) == \A i \in 1..Len(q) : q[i].ok
FirstRaise(q) == q[CHOOSE i \in 1..Len(q) : ~q[i].ok /\ \A j \in 1..(i - 1) : q[j].ok]
Vals(q) == [i \in 1..Len(q) |-> q[i].val]

(***************************************************************************)
(* FlightAggregator.parse_flight_offer                                     *)
(***************************************************************************)
\* Mutant of parse_segment: a field the source lacks is left out of the dict.
parse_segment_omitting(segment) ==
    LET reads == <<Get2(segment, "departure", "iataCode"),
                   Get2(segment, "departure", "at"),
                   Get2(segment, "departure", "terminal"),
                   Get2(segment, "arrival", "iataCode"),
                   Get2(segment, "arrival", "at"),
                   Get2(segment, "arrival", "terminal"),
                   Get(segment, "carrierCode"),
                   Get(segment, "number"),
                   Get2(segment, "aircraft", "code"),
                   Get(segment, "duration")>>
        full == [departure |-> [airport |-> reads[1].val,
                                time |-> reads[2].val,
                                terminal |-> reads[3].val],
                 arrival |-> [airport |-> reads[4].val,
                              time |-> reads[5].val,
                              terminal |-> reads[6].val],
                 carrier |-> reads[7].val,
                 flight_number |-> reads[8].val,
                 aircraft |-> reads[9].val,
                 duration |-> reads[10].val]
    IN  IF ~AllOk(reads) THEN FirstRaise(reads)
        ELSE Ok([k \in {x \in DOMAIN full : full[x] # Null} |-> full[k]])

\* One pass of the inner loop: the dict appended to `segments`.
parse_segment(segment) ==
    LET reads == <<Get2(segment, "departure", "iataCode"),
                   Get2(segment, "departure", "at"),
                   Get2(segment, "departure", "terminal"),
                   Get2(segment, "arrival", "iataCode"),
                   Get2(segment, "arrival", "at"),
                   Get2(segment, "arrival", "terminal"),
                   Get(segment, "carrierCode"),
                   Get(segment, "number"),
                   Get2(segment, "aircraft", "code"),
                   Get(segment, "duration")>>
    IN  IF ~AllOk(reads) THEN FirstRaise(reads)
        ELSE Ok([departure |-> [airport |-> reads[1].val,
                                time |-> reads[2].val,
                                terminal |-> reads[3].val],
                 arrival |-> [airport |-> reads[4].val,
                              time |-> reads[5].val,
                              terminal |-> reads[6].val],
                 carrier |-> reads[7].val,
                 flight_number |-> reads[8].val,
                 aircraft |-> reads[9].val,
                 duration |-> reads[10].val])

\* Mutant of parse_itinerary: a segment equal to the one before it is skipped.
parse_itinerary_dedup(itinerary) ==
    LET walk == GetIter(itinerary, "segments")
        kept == SelectSeq([j \in 1..Len(walk.val) |-> <<j, walk.val[j]>>],
                          LAMBDA e : e[1] = 1 \/ walk.val[e[1] - 1] # e[2])
        segments == [j \in 1..Len(kept) |-> parse_segment(kept[j][2])]
        duration == Get(itinerary, "duration")
    IN  IF ~walk.ok THEN walk
        ELSE IF ~AllOk(segments) THEN FirstRaise(segments)
        ELSE IF ~duration.ok THEN duration
        ELSE Ok([duration |-> duration.val, segments |-> Vals(segments)])

\* One pass of the outer loop: the dict appended to parsed['itineraries'].
parse_itinerary(itinerary) ==
    LET walk == GetIter(itinerary, "segments")
        segments == [j \in 1..Len(walk.val) |-> parse_segment(walk.val[j])]
        duration == Get(itinerary, "duration")
    IN  IF ~walk.ok THEN walk
        ELSE IF ~AllOk(segments) THEN FirstRaise(segments)
        ELSE IF ~duration.ok THEN duration
        ELSE Ok([duration |-> duration.val, segments |-> Vals(segments)])

parse_flight_offer(offer) ==
    LET id == Get(offer, "id")
        total == Get2(offer, "price", "total")
        currency == Get2(offer, "price", "currency")
        walk == GetIter(offer, "itineraries")
        itineraries == [i \in 1..Len(walk.val) |-> parse_itinerary(walk.val[i])]
    IN  IF ~id.ok THEN id
        ELSE IF ~total.ok THEN total
        ELSE IF ~currency.ok THEN currency
        ELSE IF ~walk.ok THEN walk
        ELSE IF ~AllOk(itineraries) THEN FirstRaise(itineraries)
        ELSE Ok([id |-> id.val,
                 price |-> [total |-> total.val, currency |-> currency.val],
                 itineraries |-> Vals(itineraries)])

(***************************************************************************)
(* Raw offers of the provider payload that parse_flight_offer is applied   *)
(* to: every key of an offer, an itinerary and a segment is present,       *)
(* absent, or an empty mapping / list.                                     *)
(***************************************************************************)
T(s) == Str(s)

FullEndpoint(code) ==
    Dict(("iataCode" :> T(code)) @@ ("at" :> T(<<"0", "9", ":", "0", "0">>))
         @@ ("terminal" :> T(<<"4">>)))

FullSegment ==
    ("departure" :> FullEndpoint(<<"J", "F", "K">>))
    @@ ("arrival" :> FullEndpoint(<<"L", "A", "X">>))
    @@ ("carrierCode" :> T(<<"A", "A">>))
    @@ ("number" :> T(<<"1", "0", "0">>))
    @@ ("aircraft" :> Dict("code" :> T(<<"3", "2", "1">>)))
    @@ ("duration" :> T(<<"P", "T", "6", "H">>))

\* Segments with keys absent or empty at each level; the first is repeated so
\* that a list can hold the same segment twice.
SegmentPool ==
    << Dict(FullSegment),
       Dict(FullSegment),
       Dict([FullSegment EXCEPT !["departure"] = Dict(Without(@.v, {"terminal"}))]),
       Dict(Without(FullSegment, {"aircraft"})),
       EmptyDict,
       Dict(("departure" :> EmptyDict) @@ ("aircraft" :> EmptyDict)
            @@ ("number" :> T(<<"7">>))),
       Dict([Without(FullSegment, {"carrierCode", "number", "duration", "departure"})
                EXCEPT !["arrival"] = Dict(Without(@.v, {"iataCode", "at"}))]) >>

\* Up to n consecutive segments of the pool, from any place in it.
Window(start, n) ==
    [i \in 1..n |-> SegmentPool[((start + i - 2) % Len(SegmentPool)) + 1]]

SegmentLists ==
    {<<>>} \cup {Window(start, n) : start \in 1..Len(SegmentPool), n \in 1..MaxSegs}

RawItineraries ==
    {EmptyDict,
     Dict("duration" :> T(<<"P", "T", "9", "H">>)),
     Dict("segments" :> EmptyDict),
     Dict("segments" :> EmptyList)}
    \cup {Dict(("duration" :> T(<<"P", "T", "6", "H">>)) @@ ("segments" :> List(q))) :
            q \in SegmentLists \ {<<>>}}

FullPrice ==
    Dict(("total" :> T(<<"9", "9", ".", "9", "9">>)) @@ ("currency" :> T(<<"U", "S", "D">>)))

RawOfferHeads ==
    {("id" :> T(<<"1">>)) @@ ("price" :> FullPrice),
     ("price" :> FullPrice),
     ("id" :> T(<<"1">>)),
     ("id" :> T(<<"1">>)) @@ ("price" :> EmptyDict),
     ("id" :> T(<<"1">>)) @@ ("price" :> Dict("currency" :> T(<<"E", "U", "R">>)))}

RawOffers ==
    {Dict(h) : h \in RawOfferHeads}
    \cup {Dict(h @@ ("itineraries" :> EmptyDict)) : h \in RawOfferHeads}
    \cup {Dict(h @@ ("itineraries" :> List(q))) :
            h \in RawOfferHeads, q \in SeqsUpTo(RawItineraries, MaxItins)}

(***************************************************************************)
(* The normaliser applied to one raw offer.                                *)
(***************************************************************************)
NotCalled == Raise("not called")

Normalize ==
    /\ norm.pc = "ready"
    /\ norm' = [norm EXCEPT !.pc = "returned", !.result = parse_flight_offer(norm.offer)]
    /\ UNCHANGED <<rank, front_vars>>

NextNormalize == Normalize

IdleRank == [pc |-> "idle"]
IdleNorm == [pc |-> "idle"]
IdleFront ==
    /\ program = "none"
    /\ requests = {}
    /\ cli = [pc |-> "idle"]
    /\ form = [origin_entry |-> <<>>]
    /\ ui = [search_button |-> "none"]
    /\ workers = <<>>
    /\ after_queue = <<>>
    /\ edits = 0

InitNormalize ==
    /\ \E offer \in RawOffers :
         norm = [pc |-> "ready", offer |-> offer, result |-> NotCalled]
    /\ rank = IdleRank
    /\ IdleFront

SpecNormalize == InitNormalize /\ [][NextNormalize]_vars

(***************************************************************************)
(* What the source payload holds, read independently of the normaliser.    *)
(***************************************************************************)
\* The value at a path of keys, Null when a key on the way is absent.
RECURSIVE SourceLeaf(_, _)
SourceLeaf(x, path) ==
    IF path = <<>> THEN x
    ELSE IF x.t = "dict" /\ Head(path) \in DOMAIN x.v
         THEN SourceLeaf(x.v[Head(path)], Tail(path))
         ELSE Null

\* The items of the list under key k; none when k is absent or an empty mapping.
SourceItems(x, k) ==
    IF k \in DOMAIN x.v /\ x.v[k].t = "list" THEN x.v[k].v ELSE <<>>

Returned == norm.pc = "returned"

\* The output segment carries the identifying leaves of the source segment.
SameSegment(out, src) ==
    /\ out.carrier = SourceLeaf(src, <<"carrierCode">>)
    /\ out.flight_number = SourceLeaf(src, <<"number">>)
    /\ out.departure.airport = SourceLeaf(src, <<"departure", "iataCode">>)
    /\ out.departure.terminal = SourceLeaf(src, <<"departure", "terminal">>)
    /\ out.arrival.airport = SourceLeaf(src, <<"arrival", "iataCode">>)
    /\ out.aircraft = SourceLeaf(src, <<"aircraft", "code">>)

\* C5: for every raw offer whose keys are present, absent or empty,
\* parse_flight_offer returns without raising, and the record's itineraries and
\* each itinerary's segments correspond position for position to the input's
\* (same counts, same order, nothing filtered or deduplicated); an offer with
\* no itineraries yields an empty itineraries sequence.
C5_NormalizeTotalAndPositional ==
    Returned =>
        LET src == SourceItems(norm.offer, "itineraries")
            r == norm.result
        IN  /\ r.ok
            /\ Len(r.val.itineraries) = Len(src)
            /\ \A i \in 1..Len(src) :
                 LET segs == SourceItems(src[i], "segments")
                     out == r.val.itineraries[i]
                 IN  /\ out.duration = SourceLeaf(src[i], <<"duration">>)
                     /\ Len(out.segments) = Len(segs)
                     /\ \A j \in 1..Len(segs) : SameSegment(out.segments[j], segs[j])

\* Two itineraries, the first with the same segment twice and then a third
\* segment, the second with no segments key, in an offer with no id.
C5_Witness ==
    /\ Returned
    /\ norm.result.ok
    /\ "id" \notin DOMAIN norm.offer.v
    /\ Len(SourceItems(norm.offer, "itineraries")) = 2
    /\ LET src == SourceItems(norm.offer, "itineraries")
       IN  /\ Len(SourceItems(src[1], "segments")) = 2
           /\ SourceItems(src[1], "segments")[1] = SourceItems(src[1], "segments")[2]
           /\ src[2] = EmptyDict
    /\ Len(norm.result.val.itineraries[1].segments) = 2
    /\ norm.result.val.itineraries[2].segments = <<>>

EndpointKeys == {"airport", "time", "terminal"}
SegmentKeys == {"departure", "arrival", "carrier", "flight_number", "aircraft", "duration"}

\* C6: every record parse_flight_offer returns has the keys id, price.total,
\* price.currency and itineraries, every itinerary duration and segments, every
\* segment departure/arrival.{airport,time,terminal}, carrier, flight_number,
\* aircraft and duration; a field absent from the source is present with value
\* null and a field present in the source carries its source value unmodified.
C6_KeysAlwaysPresent ==
    (Returned /\ norm.result.ok) =>
        LET p == norm.result.val
            o == norm.offer
            src == SourceItems(o, "itineraries")
        IN  /\ DOMAIN p = {"id", "price", "itineraries"}
            /\ DOMAIN p.price = {"total", "currency"}
            /\ p.id = SourceLeaf(o, <<"id">>)
            /\ p.price.total = SourceLeaf(o, <<"price", "total">>)
            /\ p.price.currency = SourceLeaf(o, <<"price", "currency">>)
            /\ \A i \in 1..Len(p.itineraries) :
                 LET it == p.itineraries[i]
                 IN  /\ DOMAIN it = {"duration", "segments"}
                     /\ i <= Len(src) => it.duration = SourceLeaf(src[i], <<"duration">>)
                     /\ \A j \in 1..Len(it.segments) :
                          LET seg == it.segments[j]
                              raw == IF i <= Len(src) /\ j <= Len(SourceItems(src[i], "segments"))
                                     THEN SourceItems(src[i], "segments")[j]
                                     ELSE Null
                          IN  /\ DOMAIN seg = SegmentKeys
                              /\ DOMAIN seg.departure = EndpointKeys
                              /\ DOMAIN seg.arrival = EndpointKeys
                              /\ seg.departure.airport = SourceLeaf(raw, <<"departure", "iataCode">>)
                              /\ seg.departure.time = SourceLeaf(raw, <<"departure", "at">>)
                              /\ seg.departure.terminal = SourceLeaf(raw, <<"departure", "terminal">>)
                              /\ seg.arrival.airport = SourceLeaf(raw, <<"arrival", "iataCode">>)
                              /\ seg.arrival.time = SourceLeaf(raw, <<"arrival", "at">>)
                              /\ seg.arrival.terminal = SourceLeaf(raw, <<"arrival", "terminal">>)
                              /\ seg.carrier = SourceLeaf(raw, <<"carrierCode">>)
                              /\ seg.flight_number = SourceLeaf(raw, <<"number">>)
                              /\ seg.aircraft = SourceLeaf(raw, <<"aircraft", "code">>)
                              /\ seg.duration = SourceLeaf(raw, <<"duration">>)

\* A returned segment whose source has no departure terminal but an arrival
\* terminal, and one whose source has no aircraft.
C6_Witness ==
    /\ Returned
    /\ norm.result.ok
    /\ \E i \in 1..Len(norm.result.val.itineraries) :
         \E j \in 1..Len(norm.result.val.itineraries[i].segments) :
            LET seg == norm.result.val.itineraries[i].segments[j]
                raw == SourceItems(SourceItems(norm.offer, "itineraries")[i], "segments")[j]
            IN  /\ "departure" \in DOMAIN raw.v
                /\ "terminal" \notin DOMAIN raw.v["departure"].v
                /\ seg.departure.terminal = Null
                /\ seg.arrival.terminal = Str(<<"4">>)
    /\ \E i \in 1..Len(norm.result.val.itineraries) :
         \E j \in 1..Len(norm.result.val.itineraries[i].segments) :
            LET seg == norm.result.val.itineraries[i].segments[j]
                raw == SourceItems(SourceItems(norm.offer, "itineraries")[i], "segments")[j]
            IN  /\ raw # EmptyDict
                /\ "aircraft" \notin DOMAIN raw.v
                /\ seg.aircraft = Null

(***************************************************************************)
(* Raw offers in which a container key is present and holds null.          *)
(***************************************************************************)
NullContainers == {"price", "itineraries", "segments", "departure", "arrival", "aircraft"}

\* A full segment whose containers named in K hold null.
NullSegment(K) ==
    Dict([k \in DOMAIN FullSegment |-> IF k \in K THEN Null ELSE FullSegment[k]])

\* An offer of m itineraries, the last of n segments; the containers named in
\* K hold null, those of an itinerary in the last itinerary and those of a
\* segment in its segment at place p.
NullOffer(K, m, n, p) ==
    LET segments == [i \in 1..n |-> IF i = p THEN NullSegment(K) ELSE Dict(FullSegment)]
        itinerary == Dict(("duration" :> T(<<"P", "T", "6", "H">>))
                          @@ ("segments" :> IF "segments" \in K THEN Null
                                            ELSE List(segments)))
        full == Dict(("duration" :> T(<<"P", "T", "9", "H">>))
                     @@ ("segments" :> List(<<Dict(FullSegment)>>)))
    IN  Dict(("id" :> T(<<"1">>))
             @@ ("price" :> IF "price" \in K THEN Null ELSE FullPrice)
             @@ ("itineraries" :> IF "itineraries" \in K THEN Null
                                  ELSE List([i \in 1..m |-> IF i = m THEN itinerary
                                                                     ELSE full])))

NullOffers ==
    {NullOffer(c[1], c[2], c[3], c[4]) :
        c \in {d \in ((SUBSET NullContainers) \ {{}}) \X (1..MaxItins) \X (1..MaxSegs)
                      \X (1..MaxSegs) : d[4] <= d[3]}}

InitNormalizeNull ==
    /\ \E offer \in NullOffers :
         norm = [pc |-> "ready", offer |-> offer, result |-> NotCalled]
    /\ rank = IdleRank
    /\ IdleFront

SpecNormalizeNull == InitNormalizeNull /\ [][NextNormalize]_vars

\* The payload with every key that holds null taken out, at every depth.
RECURSIVE DropNulls(_)
DropNulls(x) ==
    CASE x.t = "dict" -> Dict([k \in {j \in DOMAIN x.v : x.v[j] # Null} |->
                                 DropNulls(x.v[k])])
      [] x.t = "list" -> List([i \in 1..Len(x.v) |-> DropNulls(x.v[i])])
      [] OTHER -> x

\* C11 (as claimed): for a raw offer in which price, itineraries, segments,
\* departure, arrival or aircraft is present and holds null, parse_flight_offer
\* does not raise and returns what it returns for the same offer with those keys
\* absent (null leaves, an empty sequence).
C11_NullContainerTreatedAsAbsent ==
    Returned =>
        /\ norm.result.ok
        /\ norm.result = parse_flight_offer(DropNulls(norm.offer))

(***************************************************************************)
(* FlightAggregator.search_flights and compare_flights                     *)
(***************************************************************************)
\* Truth value of a Python value in `if x` / `not x`.
Truthy(x) ==
    CASE x.t = "null" -> FALSE
      [] x.t = "list" -> x.v # <<>>
      [] x.t = "dict" -> DOMAIN x.v # {}
      [] x.t = "str" -> x.v # <<>>
      [] OTHER -> TRUE

\* The provider's answer to one call: a response whose data is a list of raw
\* offers or is absent, or a ResponseError.
Response(data) == [kind |-> "response", data |-> data]
ResponseError == [kind |-> "ResponseError"]

\* What search_flights returns once the provider has answered.
search_flights(answer) ==
    IF answer.kind = "ResponseError" THEN EmptyList ELSE answer.data

\* float(x): a str is parsed, None and containers are a TypeError.
py_float(x) == IF x.t = "str" THEN float_of_text(x.v) ELSE Raise("TypeError")

\* The sort key: lambda x: float(x['price']['total'])
price_key(x) == py_float(x.price.total)

\* Mutant of InsertAt: the item takes the place of the one at pos.
InsertAt_overwrite(q, pos, e) ==
    IF pos = Len(q) THEN Append(q, e)
    ELSE [i \in 1..Len(q) |-> IF i = pos + 1 THEN e ELSE q[i]]

\* q with e put before the item at 0-based index pos.
InsertAt(q, pos, e) == SubSeq(q, 1, pos) \o <<e>> \o SubSeq(q, pos + 1, Len(q))

\* Mutant of bisect: the place before the items equal to the pivot.
RECURSIVE bisect_left(_, _, _, _)
bisect_left(q, pivot, l, r) ==
    IF l >= r THEN l
    ELSE LET p == l + ((r - l) \div 2)
         IN  IF ~FloatLess(q[p + 1].key, pivot)
             THEN bisect_left(q, pivot, l, p)
             ELSE bisect_left(q, pivot, p + 1, r)

\* The 0-based place of a pivot key in the sorted q[l..r-1]: after every item
\* that is not greater than it.
RECURSIVE bisect(_, _, _, _)
bisect(q, pivot, l, r) ==
    IF l >= r THEN l
    ELSE LET p == l + ((r - l) \div 2)
         IN  IF FloatLess(pivot, q[p + 1].key)
             THEN bisect(q, pivot, l, p)
             ELSE bisect(q, pivot, p + 1, r)

\* Binary insertion sort of <<key, item>> pairs, the sort list.sort applies to
\* a short list.
RECURSIVE binarysort(_, _)
binarysort(sorted, rest) ==
    IF rest = <<>> THEN sorted
    ELSE binarysort(InsertAt(sorted, bisect(sorted, Head(rest).key, 0, Len(sorted)),
                             Head(rest)),
                    Tail(rest))

\* Mutant of list_sort: a list of fewer than two items is returned as it is,
\* its keys never computed.
list_sort_lazy(q) ==
    LET keys == [i \in 1..Len(q) |-> price_key(q[i])]
        pairs == [i \in 1..Len(q) |-> [key |-> keys[i].val, item |-> q[i]]]
        sorted == binarysort(<<>>, pairs)
    IN  IF Len(q) < 2 THEN Ok(q)
        ELSE IF ~AllOk(keys) THEN FirstRaise(keys)
        ELSE Ok([i \in 1..Len(sorted) |-> sorted[i].item])

\* Mutant of list_sort: the keys are computed and the order is left alone.
list_sort_unsorted(q) ==
    LET keys == [i \in 1..Len(q) |-> price_key(q[i])]
    IN  IF ~AllOk(keys) THEN FirstRaise(keys) ELSE Ok(q)

\* parsed_offers.sort(key=...): the key of every item is computed first, in
\* order, and the first failure is raised; then the stable sort.
list_sort(q) ==
    LET keys == [i \in 1..Len(q) |-> price_key(q[i])]
        pairs == [i \in 1..Len(q) |-> [key |-> keys[i].val, item |-> q[i]]]
        sorted == binarysort(<<>>, pairs)
    IN  IF ~AllOk(keys) THEN FirstRaise(keys)
        ELSE Ok([i \in 1..Len(sorted) |-> sorted[i].item])

\* What compare_flights returns or raises once the provider has answered.
compare_flights(answer) ==
    LET offers == search_flights(answer)
        parsed == [i \in 1..Len(offers.v) |-> parse_flight_offer(offers.v[i])]
    IN  IF ~Truthy(offers) THEN Ok(<<>>)
        ELSE IF ~AllOk(parsed) THEN FirstRaise(parsed)
        ELSE list_sort(Vals(parsed))

(***************************************************************************)
(* The pipeline applied to one answer of the provider.                     *)
(***************************************************************************)
Priced(id, total) ==
    Dict(("id" :> T(id))
         @@ ("price" :> Dict(("total" :> T(total)) @@ ("currency" :> T(<<"U", "S", "D">>)))))

\* Offers by price text: equal prices under different ids and under different
\* texts, a price whose text sorts before a smaller one, a price that is no
\* number and a price with no total.
RankOffers ==
    {Dict(Priced(<<"1">>, <<"9", "9", ".", "9", "9">>).v
          @@ ("itineraries" :> List(<<Dict("segments" :> List(<<Dict(FullSegment)>>))>>))),
     Priced(<<"2">>, <<"9", "9", ".", "9", "9">>),
     Priced(<<"3">>, <<"2", "5", "0", ".", "0", "0">>),
     Priced(<<"4">>, <<"5", "0", "0", ".", "0", "0">>),
     Priced(<<"5">>, <<"1", "0", "0">>),
     Priced(<<"6">>, <<"1", "0", "0", ".", "0">>),
     Priced(<<"7">>, <<"N", "/", "A">>),
     Dict(("id" :> T(<<"8">>)) @@ ("price" :> Dict("currency" :> T(<<"U", "S", "D">>))))}

Answers ==
    {ResponseError, Response(Null)}
    \cup {Response(List(q)) : q \in SeqsUpTo(RankOffers, MaxOffers)}

InitRank ==
    /\ \E answer \in Answers :
         rank = [pc |-> "ready", answer |-> answer, result |-> NotCalled]
    /\ norm = IdleNorm
    /\ IdleFront

CompareFlights ==
    /\ rank.pc = "ready"
    /\ rank' = [rank EXCEPT !.pc = "returned", !.result = compare_flights(rank.answer)]
    /\ UNCHANGED <<norm, front_vars>>

NextRank == CompareFlights

SpecRank == InitRank /\ [][NextRank]_vars

(***************************************************************************)
(* Properties of the ranking pipeline.                                     *)
(***************************************************************************)
RankReturned == rank.pc = "returned"

\* The raw offers the provider answered with (none on an error or absent data).
RawOffersOf(answer) ==
    IF answer.kind = "response" /\ answer.data.t = "list" THEN answer.data.v ELSE <<>>

\* The number the source's price total denotes, or the failure of parsing it.
SourceKey(offer) == py_float(SourceLeaf(offer, <<"price", "total">>))
AllParse(q) == \A i \in 1..Len(q) : SourceKey(q[i]).ok
Normalized(q) == [i \in 1..Len(q) |-> parse_flight_offer(q[i]).val]
Range(q) == {q[i] : i \in 1..Len(q)}

\* C1: for every list of N >= 1 raw offers whose price totals all parse as
\* numbers, compare_flights returns exactly N parsed offers that are a
\* permutation of the normalised inputs: none dropped, duplicated or truncated.
C1_RankKeepsEveryOffer ==
    LET raw == RawOffersOf(rank.answer)
    IN  (RankReturned /\ Len(raw) >= 1 /\ AllParse(raw)) =>
            /\ rank.result.ok
            /\ Len(rank.result.val) = Len(raw)
            /\ \A x \in Range(Normalized(raw)) \cup Range(rank.result.val) :
                 Count(rank.result.val, x) = Count(Normalized(raw), x)

\* Four offers, one of them twice, returned in another order than given.
C1_Witness ==
    LET raw == RawOffersOf(rank.answer)
    IN  /\ RankReturned
        /\ Len(raw) = 4
        /\ AllParse(raw)
        /\ raw[1] = raw[3]
        /\ raw[1] # raw[2]
        /\ rank.result.ok
        /\ Len(rank.result.val) = 4
        /\ rank.result.val # Normalized(raw)

KeyVal(p) == price_key(p).val
WithKey(q, k) == SelectSeq(q, LAMBDA p : FloatEq(KeyVal(p), k))

\* C2: the sequence compare_flights returns is in non-decreasing order of
\* numeric price total, and offers of equal numeric price total appear in the
\* order the provider returned them.
C2_SortedAndStable ==
    (RankReturned /\ rank.result.ok) =>
        LET r == rank.result.val
            given == Normalized(RawOffersOf(rank.answer))
        IN  /\ \A i, j \in 1..Len(r) : i < j => ~FloatLess(KeyVal(r[j]), KeyVal(r[i]))
            /\ \A i \in 1..Len(r) : WithKey(r, KeyVal(r[i])) = WithKey(given, KeyVal(r[i]))

\* Totals 250.00, 99.99, 99.99, 500.00 come back as 99.99, 99.99, 250.00,
\* 500.00 with the two 99.99 offers (ids 1 and 2) in the given order.
C2_Witness ==
    LET raw == RawOffersOf(rank.answer)
        ids == [i \in 1..4 |-> SourceLeaf(raw[i], <<"id">>)]
    IN  /\ RankReturned
        /\ Len(raw) = 4
        /\ ids = <<T(<<"3">>), T(<<"1">>), T(<<"2">>), T(<<"4">>)>>
        /\ rank.result.ok
        /\ [i \in 1..4 |-> rank.result.val[i].id]
              = <<T(<<"1">>), T(<<"2">>), T(<<"3">>), T(<<"4">>)>>

\* C3: if any raw offer of a non-empty result has a price total that cannot be
\* parsed as a number, compare_flights raises the parsing error; it returns no
\* list, whatever the offer's position and however many offers there are.
C3_MalformedPriceRaises ==
    LET raw == RawOffersOf(rank.answer)
    IN  (RankReturned /\ Len(raw) >= 1 /\ ~AllParse(raw)) =>
            /\ ~rank.result.ok
            /\ rank.result.exc \in {"ValueError", "TypeError"}

\* A single offer whose total is the text N/A: ValueError.
C3_Witness ==
    LET raw == RawOffersOf(rank.answer)
    IN  /\ RankReturned
        /\ Len(raw) = 1
        /\ SourceLeaf(raw[1], <<"price", "total">>) = T(<<"N", "/", "A">>)
        /\ rank.result = Raise("ValueError")

\* C4 (as claimed): a search that succeeds with zero raw offers returns the
\* empty sequence, and a search whose provider call failed returns something
\* the caller can tell from it.
C4_EmptyDistinctFromFailure ==
    RankReturned =>
        /\ (rank.answer.kind = "response" /\ RawOffersOf(rank.answer) = <<>>)
              => rank.result = Ok(<<>>)
        /\ rank.answer.kind = "ResponseError" => rank.result # Ok(<<>>)

NonIncreasing(q) ==
    \A i \in 1..(Len(q) - 1) : ~FloatLess(SourceKey(q[i]).val, SourceKey(q[i + 1]).val)
NonDecreasing(q) ==
    \A i \in 1..(Len(q) - 1) : ~FloatLess(SourceKey(q[i + 1]).val, SourceKey(q[i]).val)
StrictlyDecreasing(q) ==
    \A i \in 1..(Len(q) - 1) : FloatLess(SourceKey(q[i + 1]).val, SourceKey(q[i]).val)

\* C10 (as claimed): every list in non-increasing price order, lists with
\* equal-priced offers included, comes back exactly reversed, and every list in
\* non-decreasing price order comes back unchanged.
C10_ReverseSortedFullyInverted ==
    LET raw == RawOffersOf(rank.answer)
    IN  (RankReturned /\ Len(raw) >= 1 /\ AllParse(raw)) =>
            /\ NonIncreasing(raw) => rank.result = Ok(Reverse(Normalized(raw)))
            /\ NonDecreasing(raw) => rank.result = Ok(Normalized(raw))

\* Where the stable sort puts item i of a list: after the cheaper items and
\* after the equal-priced items given before it.
StablePlace(q, i) ==
    Cardinality({j \in 1..Len(q) : FloatLess(SourceKey(q[j]).val, SourceKey(q[i]).val)})
    + Cardinality({j \in 1..i : FloatEq(SourceKey(q[j]).val, SourceKey(q[i]).val)})

\* C10 (amended): a list in strictly decreasing price order comes back exactly
\* reversed; a list in non-increasing order comes back with its price groups
\* reversed and the equal-priced offers of a group in the given order; a list
\* in non-decreasing order comes back unchanged.
C10_ReverseUpToTies ==
    LET raw == RawOffersOf(rank.answer)
    IN  (RankReturned /\ Len(raw) >= 1 /\ AllParse(raw)) =>
            /\ StrictlyDecreasing(raw) => rank.result = Ok(Reverse(Normalized(raw)))
            /\ NonIncreasing(raw) =>
                 /\ rank.result.ok
                 /\ Len(rank.result.val) = Len(raw)
                 /\ \A i \in 1..Len(raw) :
                      rank.result.val[StablePlace(raw, i)] = Normalized(raw)[i]
            /\ NonDecreasing(raw) => rank.result = Ok(Normalized(raw))

\* 500.00, 250.00, 99.99 (id 1), 99.99 (id 2) comes back as 99.99 (id 1),
\* 99.99 (id 2), 250.00, 500.00: the groups reversed, the tie in given order.
C10_Witness ==
    LET raw == RawOffersOf(rank.answer)
    IN  /\ RankReturned
        /\ Len(raw) = 4
        /\ [i \in 1..4 |-> SourceLeaf(raw[i], <<"id">>)]
              = <<T(<<"4">>), T(<<"3">>), T(<<"1">>), T(<<"2">>)>>
        /\ rank.result.ok
        /\ [i \in 1..4 |-> rank.result.val[i].id]
              = <<T(<<"1">>), T(<<"2">>), T(<<"3">>), T(<<"4">>)>>
        /\ rank.result.val # Reverse(Normalized(raw))

(***************************************************************************)
(* The provider call of search_flights, and the two front ends.            *)
(***************************************************************************)
\* Mutant of request_params: returnDate is always put in the parameters.
request_params_always(args) ==
    ("originLocationCode" :> args.origin)
    @@ ("destinationLocationCode" :> args.destination)
    @@ ("departureDate" :> args.departure_date)
    @@ ("adults" :> args.adults)
    @@ ("max" :> args.max_results)
    @@ ("currencyCode" :> args.currency)
    @@ ("nonStop" :> args.non_stop)
    @@ ("returnDate" :> args.return_date)

\* The keyword arguments search_flights hands to the provider's get(**params).
request_params(args) ==
    LET params == ("originLocationCode" :> args.origin)
                  @@ ("destinationLocationCode" :> args.destination)
                  @@ ("departureDate" :> args.departure_date)
                  @@ ("adults" :> args.adults)
                  @@ ("max" :> args.max_results)
                  @@ ("currencyCode" :> args.currency)
                  @@ ("nonStop" :> args.non_stop)
    IN  IF Truthy(args.return_date)
        THEN params @@ ("returnDate" :> args.return_date)
        ELSE params

\* One provider call in flight: which front end and which of its searches made
\* it, the arguments compare_flights was given, whether the front end's request
\* carried a return date, and the parameters that went out.
ProviderCall(by, search, args, carried) ==
    [by |-> by, search |-> search, args |-> args, carried |-> carried,
     params |-> request_params(args)]

ParamKeys ==
    {"originLocationCode", "destinationLocationCode", "departureDate", "adults", "max",
     "currencyCode", "nonStop"}

\* The provider's answers to a front end's search.
FrontAnswers ==
    {ResponseError,
     Response(EmptyList),
     Response(List(<<Priced(<<"3">>, <<"2", "5", "0", ".", "0", "0">>),
                     Priced(<<"1">>, <<"9", "9", ".", "9", "9">>)>>)),
     Response(List(<<Priced(<<"7">>, <<"N", "/", "A">>)>>))}

DepartureDate == <<"2", "0", "2", "6", "-", "1", "2", "-", "0", "1">>
ReturnDate == <<"2", "0", "2", "6", "-", "1", "2", "-", "0", "8">>
USD == <<"U", "S", "D">>

(***************************************************************************)
(* flight_aggregator.main: the command-line front end.                     *)
(***************************************************************************)
\* The answers the user types at the eight prompts.
Typed ==
    [origin : {<<"j", "f", "k">>, <<"J", "F", "K", "X", " ">>},
     destination : {<<"L", "A", "X">>},
     departure_date : {DepartureDate},
     return_date : {<<>>, <<" ">>, ReturnDate},
     adults : {<<>>, <<"2">>, <<" ", "3">>, <<"0">>, <<"-", "1">>, <<"t", "w", "o">>},
     non_stop : {<<>>, <<"Y">>},
     max_results : {<<>>, <<"5">>, <<"0">>, <<"1", ".", "5">>},
     currency : {<<>>, <<"e", "u", "r">>}]

\* What main prints at its end, by how compare_flights ended.
cli_report(result) ==
    CASE result.ok /\ result.val # <<>> -> "Found flights"
      [] result.ok -> "No flights found"
      [] result.exc = "ValueError" -> "Invalid input"
      [] OTHER -> "Error"

Main ==
    /\ program = "cli"
    /\ cli.pc = "start"
    /\ LET typed == cli.stdin
           origin == upper(strip(typed.origin))
           destination == upper(strip(typed.destination))
           departure_date == strip(typed.departure_date)
           return_date_input == strip(typed.return_date)
           return_date == IF return_date_input # <<>> THEN Str(return_date_input) ELSE Null
           adults_input == strip(typed.adults)
           adults == IF adults_input # <<>> THEN py_int(adults_input) ELSE Ok(1)
           non_stop == lower(strip(typed.non_stop)) = <<"y">>
           max_results_input == strip(typed.max_results)
           max_results == IF max_results_input # <<>> THEN py_int(max_results_input)
                          ELSE Ok(10)
           currency_input == upper(strip(typed.currency))
           currency == IF currency_input # <<>> THEN currency_input ELSE USD
           args == [origin |-> origin,
                    destination |-> destination,
                    departure_date |-> departure_date,
                    return_date |-> return_date,
                    adults |-> adults.val,
                    max_results |-> max_results.val,
                    currency |-> currency,
                    non_stop |-> non_stop]
       IN  IF ~adults.ok \/ ~max_results.ok
           THEN /\ cli' = [cli EXCEPT !.pc = "done", !.out = "Invalid input"]
                /\ UNCHANGED requests
           ELSE /\ requests' = {ProviderCall("cli", 0, args, return_date_input # <<>>)}
                /\ cli' = [cli EXCEPT !.pc = "waiting", !.called = TRUE]
    /\ UNCHANGED <<program, gui_vars, pipeline_vars>>

\* The provider answers; compare_flights returns or raises into main's except
\* clauses, and main prints its report.
MainAnswer ==
    /\ program = "cli"
    /\ cli.pc = "waiting"
    /\ \E answer \in FrontAnswers :
         cli' = [cli EXCEPT !.pc = "done", !.out = cli_report(compare_flights(answer))]
    /\ requests' = {}
    /\ UNCHANGED <<program, gui_vars, pipeline_vars>>

(***************************************************************************)
(* flight_gui.FlightSearchGUI: the Tkinter front end.                      *)
(***************************************************************************)
\* The widgets as create_search_form leaves them.
InitialForm ==
    [origin_entry |-> <<"J", "F", "K">>,
     destination_entry |-> <<"L", "A", "X">>,
     return_enabled |-> FALSE,
     adults_spinbox |-> <<"1">>,
     max_results_spinbox |-> <<"1", "0">>,
     currency_combo |-> USD,
     non_stop_var |-> FALSE]

InitialUi ==
    [search_button |-> "normal",
     status_label |-> "Ready",
     results_text |-> [kind |-> "empty"]]

\* What the user may put into the widgets.
OriginTexts == {<<"s", "f", "o", " ">>, <<"J", "F", "K", "X">>}
DestinationTexts == {<<>>}
AdultsTexts == {<<"0">>, <<>>}
MaxResultsTexts == {<<"5">>, <<"1", ".", "5">>}
Currencies == {USD, <<"E", "U", "R">>}

\* A search thread that has read nothing yet. `called` and `shown` record
\* whether its provider call went out and which of the two display callbacks
\* the main loop has run for it.
NewWorker ==
    [pc |-> "origin",
     origin |-> <<>>,
     destination |-> <<>>,
     called |-> FALSE,
     shown |-> "nothing"]

\* A user's change of one widget, a main-thread event like any other.
EditOrigin ==
    \E text \in OriginTexts :
        /\ form.origin_entry # text
        /\ form' = [form EXCEPT !.origin_entry = text]

EditDestination ==
    \E text \in DestinationTexts :
        /\ form.destination_entry # text
        /\ form' = [form EXCEPT !.destination_entry = text]

ToggleRoundTrip == form' = [form EXCEPT !.return_enabled = ~@]

EditAdults ==
    \E text \in AdultsTexts :
        /\ form.adults_spinbox # text
        /\ form' = [form EXCEPT !.adults_spinbox = text]

EditMaxResults ==
    \E text \in MaxResultsTexts :
        /\ form.max_results_spinbox # text
        /\ form' = [form EXCEPT !.max_results_spinbox = text]

SelectCurrency ==
    \E code \in Currencies :
        /\ form.currency_combo # code
        /\ form' = [form EXCEPT !.currency_combo = code]

ToggleNonStop == form' = [form EXCEPT !.non_stop_var = ~@]

UserEdit ==
    /\ program = "gui"
    /\ edits < MaxEdits
    /\ edits' = edits + 1
    /\ \/ EditOrigin
       \/ EditDestination
       \/ ToggleRoundTrip
       \/ EditAdults
       \/ EditMaxResults
       \/ SelectCurrency
       \/ ToggleNonStop
    /\ UNCHANGED <<program, requests, cli, ui, workers, after_queue, pipeline_vars>>

\* FlightSearchGUI.search_flights, the handler of the button and of <Return>.
gui_search_flights ==
    LET origin == upper(strip(form.origin_entry))
        destination == upper(strip(form.destination_entry))
    IN  IF origin = <<>> \/ destination = <<>>
        THEN \* showwarning("Please fill in Origin and Destination"); return
             UNCHANGED <<ui, workers>>
        ELSE IF Len(origin) # 3 \/ Len(destination) # 3
        THEN \* showwarning("Airport codes must be 3 letters (e.g., JFK, LAX)"); return
             UNCHANGED <<ui, workers>>
        ELSE /\ ui' = [ui EXCEPT !.search_button = "disabled",
                                 !.status_label = "Searching flights...",
                                 !.results_text = [kind |-> "searching"]]
             /\ workers' = Append(workers, NewWorker)

\* A click on the search button: a disabled button runs no command.
ClickSearch ==
    /\ program = "gui"
    /\ ui.search_button = "normal"
    /\ Len(workers) < MaxSearches
    /\ gui_search_flights
    /\ UNCHANGED <<program, requests, cli, form, after_queue, edits, pipeline_vars>>

\* The Return key, bound on the root window to the same handler.
PressReturn ==
    /\ program = "gui"
    /\ Len(workers) < MaxSearches
    /\ gui_search_flights
    /\ UNCHANGED <<program, requests, cli, form, after_queue, edits, pipeline_vars>>

\* The thread is over; the names it held are gone.
Finished(worker, called) ==
    [worker EXCEPT !.pc = "done", !.origin = <<>>, !.destination = <<>>, !.called = called]

\* root.after(0, self._display_error, str(e)) from the except clause.
PostError(w, e, called) ==
    /\ after_queue' = Append(after_queue, [fn |-> "display_error", search |-> w, arg |-> e])
    /\ workers' = [workers EXCEPT ![w] = Finished(@, called)]

\* The steps of _perform_search in thread w. The entries validated by the
\* handler are read one step each.
ReadOrigin(w) ==
    /\ workers[w].pc = "origin"
    /\ workers' = [workers EXCEPT ![w].pc = "destination",
                                  ![w].origin = upper(strip(form.origin_entry))]
    /\ UNCHANGED <<requests, after_queue>>

ReadDestination(w) ==
    /\ workers[w].pc = "destination"
    /\ workers' = [workers EXCEPT ![w].pc = "options",
                                  ![w].destination = upper(strip(form.destination_entry))]
    /\ UNCHANGED <<requests, after_queue>>

\* The remaining widgets are read (no handler of the main thread reads them),
\* the counts are converted, and compare_flights runs up to the provider call
\* going out.
SendRequest(w) ==
    /\ workers[w].pc = "options"
    /\ LET departure_date == DepartureDate
           return_date == IF form.return_enabled THEN Str(ReturnDate) ELSE Null
           adults == py_int(form.adults_spinbox)
           max_results == py_int(form.max_results_spinbox)
           currency == form.currency_combo
           non_stop == form.non_stop_var
       IN  IF ~adults.ok THEN PostError(w, adults.exc, FALSE) /\ UNCHANGED requests
           ELSE IF ~max_results.ok
           THEN PostError(w, max_results.exc, FALSE) /\ UNCHANGED requests
           ELSE /\ requests' = requests \cup {ProviderCall("gui", w,
                                             [origin |-> workers[w].origin,
                                              destination |-> workers[w].destination,
                                              departure_date |-> departure_date,
                                              return_date |-> return_date,
                                              adults |-> adults.val,
                                              max_results |-> max_results.val,
                                              currency |-> currency,
                                              non_stop |-> non_stop],
                                             form.return_enabled)}
                /\ workers' = [workers EXCEPT ![w].pc = "waiting", ![w].called = TRUE]
                /\ UNCHANGED after_queue

\* The provider answers; compare_flights returns or raises, and the thread
\* hands the outcome to the main loop.
ReceiveAnswer(w) ==
    /\ workers[w].pc = "waiting"
    /\ \E answer \in FrontAnswers :
         LET result == compare_flights(answer)
         IN  IF result.ok
             THEN /\ after_queue' = Append(after_queue,
                                           [fn |-> "display_results", search |-> w,
                                            arg |-> result.val])
                  /\ workers' = [workers EXCEPT ![w] = Finished(@, TRUE)]
             ELSE PostError(w, result.exc, TRUE)
    /\ requests' = {c \in requests : ~(c.by = "gui" /\ c.search = w)}

PerformSearch ==
    /\ program = "gui"
    /\ \E w \in 1..Len(workers) :
         \/ ReadOrigin(w)
         \/ ReadDestination(w)
         \/ SendRequest(w)
         \/ ReceiveAnswer(w)
    /\ UNCHANGED <<program, cli, form, ui, edits, pipeline_vars>>

\* FlightSearchGUI._display_results
display_results(flights, w) ==
    ui' = [ui EXCEPT !.results_text = IF flights = <<>>
                                      THEN [kind |-> "No flights found", search |-> w]
                                      ELSE [kind |-> "Found", n |-> Len(flights),
                                            search |-> w],
                     !.status_label = IF flights = <<>> THEN "No flights found"
                                      ELSE "Found flights",
                     !.search_button = "normal"]

\* Mutant of display_error: the search button is left as it is.
display_error_button_kept(error_message, w) ==
    ui' = [ui EXCEPT !.results_text = [kind |-> "Error", message |-> error_message,
                                       search |-> w],
                     !.status_label = "Error occurred"]

\* FlightSearchGUI._display_error
display_error(error_message, w) ==
    ui' = [ui EXCEPT !.results_text = [kind |-> "Error", message |-> error_message,
                                       search |-> w],
                     !.status_label = "Error occurred",
                     !.search_button = "normal"]

\* The main loop runs the oldest callback handed to root.after.
RunAfter ==
    /\ program = "gui"
    /\ after_queue # <<>>
    /\ LET cb == Head(after_queue)
       IN  IF cb.fn = "display_results"
           THEN display_results(cb.arg, cb.search)
           ELSE display_error(cb.arg, cb.search)
    /\ after_queue' = Tail(after_queue)
    /\ workers' = [workers EXCEPT ![Head(after_queue).search].shown = Head(after_queue).fn]
    /\ UNCHANGED <<program, requests, cli, form, edits, pipeline_vars>>

InitFront ==
    /\ requests = {}
    /\ workers = <<>>
    /\ after_queue = <<>>
    /\ edits = 0
    /\ form = InitialForm
    /\ ui = InitialUi
    /\ \/ /\ program = "cli"
          /\ \E typed \in Typed : cli = [pc |-> "start", stdin |-> typed, called |-> FALSE,
                                       out |-> "none"]
       \/ /\ program = "gui"
          /\ cli = [pc |-> "idle"]

Init ==
    /\ InitFront
    /\ norm = IdleNorm
    /\ rank = IdleRank

Next ==
    \/ Main
    \/ MainAnswer
    \/ UserEdit
    \/ ClickSearch
    \/ PressReturn
    \/ PerformSearch
    \/ RunAfter

Spec == Init /\ [][Next]_vars

\* The search threads are scheduled and the main loop keeps running its
\* callbacks; the provider call of a waiting thread returns or raises.
SpecFair == Spec /\ WF_vars(PerformSearch) /\ WF_vars(RunAfter)

(***************************************************************************)
(* Properties of the front ends.                                           *)
(***************************************************************************)
\* C7: every call in flight to the provider has the returnDate parameter if and
\* only if the request carries a return date (no key at all when the round trip
\* box is off or the return-date answer is empty), and origin, destination,
\* departure date, adults, max results, currency and non-stop flag go out with
\* exactly the values the caller supplied.
C7_ReturnDateOnlyWhenCarried ==
    \A c \in requests :
        /\ "returnDate" \in DOMAIN c.params <=> c.carried
        /\ c.carried <=> c.args.return_date # Null
        /\ c.carried => c.params["returnDate"] = c.args.return_date
        /\ DOMAIN c.params \subseteq ParamKeys \cup {"returnDate"}
        /\ ParamKeys \subseteq DOMAIN c.params
        /\ c.params["originLocationCode"] = c.args.origin
        /\ c.params["destinationLocationCode"] = c.args.destination
        /\ c.params["departureDate"] = c.args.departure_date
        /\ c.params["adults"] = c.args.adults
        /\ c.params["max"] = c.args.max_results
        /\ c.params["currencyCode"] = c.args.currency
        /\ c.params["nonStop"] = c.args.non_stop
        /\ c.by = "cli" => (c.carried <=> strip(cli.stdin.return_date) # <<>>)

\* Two searches from the form are in flight, one sent before the round trip
\* box was ticked and one after: the first has no returnDate key, the second
\* carries the return date.
C7_Witness ==
    \E c, d \in requests :
        /\ c.by = "gui" /\ d.by = "gui"
        /\ "returnDate" \notin DOMAIN c.params
        /\ "returnDate" \in DOMAIN d.params
        /\ d.params["returnDate"] = Str(ReturnDate)

\* C8 (as claimed): every provider call the form makes has an origin and a
\* destination of exactly 3 characters and an integer passenger count, under
\* any interleaving of user edits with the search thread; and on either front
\* end a non-numeric passenger count or max-results value is reported and no
\* provider call is made.
C8_MalformedInputNeverReachesNetwork ==
    /\ \A c \in requests :
          c.by = "gui" =>
              /\ Len(c.params["originLocationCode"]) = 3
              /\ Len(c.params["destinationLocationCode"]) = 3
              /\ c.params["adults"] \in Int
    /\ (/\ program = "cli"
        /\ cli.pc # "start"
        /\ \/ strip(cli.stdin.adults) # <<>> /\ ~py_int(strip(cli.stdin.adults)).ok
           \/ strip(cli.stdin.max_results) # <<>> /\ ~py_int(strip(cli.stdin.max_results)).ok)
          => ~cli.called /\ cli.pc = "done" /\ cli.out = "Invalid input"
    /\ \A w \in 1..Len(workers) :
          (workers[w].pc = "done" /\ ~workers[w].called)
          => \/ workers[w].shown = "display_error"
             \/ \E k \in 1..Len(after_queue) :
                    after_queue[k].search = w /\ after_queue[k].fn = "display_error"

\* C9 (as claimed): the adults and max-results values that go to the provider
\* are integers >= 1 whatever the caller typed; an empty answer is replaced by
\* 1 for adults, 10 for max results and USD for the currency.
C9_CountsArePositive ==
    \A c \in requests :
        /\ c.params["adults"] >= 1
        /\ c.params["max"] >= 1
        /\ c.by = "cli" =>
              /\ strip(cli.stdin.adults) = <<>> => c.params["adults"] = 1
              /\ strip(cli.stdin.max_results) = <<>> => c.params["max"] = 10
              /\ strip(cli.stdin.currency) = <<>> => c.params["currencyCode"] = USD

\* The display callbacks of search w: those waiting in the after queue, and
\* the one the main loop has run.
Callbacks(w) ==
    Cardinality({k \in 1..Len(after_queue) : after_queue[k].search = w})
    + (IF workers[w].shown # "nothing" THEN 1 ELSE 0)

Displayed(w) == Len(workers) >= w /\ workers[w].shown # "nothing"

\* C12: every search that passed validation and started a thread hands the main
\* loop exactly one callback, _display_results or _display_error, never two and
\* never none once the thread is over; that callback eventually runs; the step
\* that runs a callback leaves the search button enabled; and the form never
\* stays in the searching state or with the button disabled, whether the
\* pipeline returned offers, returned an empty list or raised.
C12_EverySearchIsDisplayed ==
    /\ [](\A w \in 1..Len(workers) :
            /\ Callbacks(w) <= 1
            /\ workers[w].pc = "done" => Callbacks(w) = 1
            /\ workers[w].shown \in {"nothing", "display_results", "display_error"})
    /\ \A w \in 1..MaxSearches : (Len(workers) >= w) ~> Displayed(w)
    /\ [][Len(after_queue') < Len(after_queue) => ui'.search_button = "normal"]_vars
    /\ (ui.search_button = "disabled") ~> (ui.search_button = "normal")
    /\ (ui.results_text.kind = "searching") ~> (ui.results_text.kind # "searching")

\* Two searches have run to their end: one ended in _display_error and the
\* other in _display_results, every thread is over, no callback is left to
\* run and the button is enabled.
C12_Witness ==
    /\ \E v, w \in 1..Len(workers) :
          /\ workers[v].shown = "display_error"
          /\ workers[w].shown = "display_results"
    /\ \A w \in 1..Len(workers) : workers[w].pc = "done"
    /\ after_queue = <<>>
    /\ ui.search_button = "normal"

\* The searches started and not yet displayed.
InFlight == {w \in 1..Len(workers) : workers[w].shown = "nothing"}

\* C13 (as claimed): at most one search is in flight at any time, no click and
\* no Return key starts a second one before the first has been displayed, and
\* the result or error on display belongs to the search started last.
C13_AtMostOneSearchInFlight ==
    /\ Cardinality(InFlight) <= 1
    /\ ui.results_text.kind \in {"Found", "No flights found", "Error"}
          => ui.results_text.search = Len(workers)

====
